---- MODULE Spec2Model ----
(***************************************************************************)
(* The two geocoding applications of the repository:                       *)
(*   geocoder_app.py            reverse geocoding (coordinates -> address) *)
(*   streamlit_geocoder_app.py  forward geocoding (address -> coordinates) *)
(*                                                                         *)
(*   Spec        one batch run of either application, from the click on    *)
(*               the batch button to the end of the loop                   *)
(*   SpecManual  geocoder_app.py: manual coordinate entry, then the click  *)
(*   SpecCsv     geocoder_app.py: CSV upload, then the click               *)
(*   SpecUpload  streamlit_geocoder_app.py: load_data, then the click      *)
(*   SpecExport  streamlit_geocoder_app.py: df_to_geojson of a frame       *)
(*   SpecInput   either application, from the input read to the end of    *)
(*               the batch                                                 *)
(*                                                                         *)
(* Each interaction with a Streamlit page reruns its script from the top,  *)
(* so the input read and the batch started by a click belong to one run.   *)
(* The geocoding service is the environment: a call to it ends in a        *)
(* location, in None or in an exception, after some time.  Time is counted *)
(* in ticks, TicksPerSecond ticks to the second.                           *)
(***************************************************************************)
EXTENDS Integers, Sequences, FiniteSets, TLC

VARIABLES
    app,                    \* "reverse" (geocoder_app.py) or "forward" (streamlit_geocoder_app.py)
    pc,                     \* position of the script
    coordinates_to_process, \* geocoder_app.py:98, list of [lat, lon]
    df,                     \* streamlit_geocoder_app.py:68, the 'address' column of the frame
    i,                      \* number of loop iterations completed (enumerate index)
    results,                \* geocoder_app.py:160
    latitudes,              \* streamlit_geocoder_app.py:75
    longitudes,             \* streamlit_geocoder_app.py:76
    geocoded_addresses,     \* streamlit_geocoder_app.py:77
    processed_df,           \* streamlit_geocoder_app.py:147, rows of the geocoded frame
    geojson_output,         \* streamlit_geocoder_app.py:190
    progress,               \* the values handed to progress_bar.progress, as <<index, total>>
    status_text,            \* geocoder_app.py:162
    messages,               \* st.info / st.success / st.warning / st.error, in order
    now,                    \* the clock, in ticks
    last_call,              \* RateLimiter's time of last dispatch, -1 for None
    tries,                  \* RateLimiter: calls already made for the current query
    calls,                  \* history: every call dispatched to the service
    signal,                 \* history: how the last resolution attempt ended: the kind of
                            \* the call's ending, "out_of_range" for an item rejected
                            \* before any call, "" before any attempt
    raw                     \* the raw input an input normalizer is given

vars == <<app, pc, coordinates_to_process, df, i, results, latitudes, longitudes,
          geocoded_addresses, processed_df, geojson_output, progress, status_text,
          messages, now, last_call, tries, calls, signal, raw>>

----------------------------------------------------------------------------
(* Bounds of the model *)

MaxQueries == 2
TicksPerSecond == 2
MaxText == 5
MaxRows == 2

(* Program constants *)

\* RateLimiter(geolocator.geocode, min_delay_seconds=1); max_retries and
\* error_wait_seconds are left at the defaults of geopy.extra.rate_limiter
\* (max_retries=2, error_wait_seconds=5.0, swallow_exceptions=True,
\* return_value_on_exception=None)
min_delay_seconds == 1
max_retries == 2
error_wait_seconds == 5

----------------------------------------------------------------------------
(* Floats: a number, nan, or Python's None where a float is expected.      *)
(* Python's comparisons with nan are all False.                            *)

Num(n) == [k |-> "num", v |-> n]
NaN == [k |-> "nan", v |-> 0]
None == [k |-> "none", v |-> 0]

Le(a, b) == a.k = "num" /\ b.k = "num" /\ a.v <= b.v

\* pd.notna
notna(x) == x.k = "num"

----------------------------------------------------------------------------
(* The inputs of a batch run *)

Coordinates ==
    { <<Num(35), Num(-82)>>, <<Num(90), Num(180)>>, <<Num(-90), Num(-180)>>,
      <<Num(91), Num(0)>>, <<Num(0), Num(181)>>, <<Num(-91), Num(-181)>>,
      <<NaN, Num(0)>> }

\* The 'address' column of an uploaded frame: one address per row
AddressColumn == <<"a1", "a2", "a3", "a4", "a5">>

Frames == { [k \in 1..m |-> [address |-> AddressColumn[k]]] : m \in 0..MaxQueries }

SeqsUpTo(S, n) == UNION { [1..m -> S] : m \in 0..n }

\* What the service answers for a located query
Locations ==
    { [address |-> "addr1", latitude |-> Num(35), longitude |-> Num(-82)] }

NoLocation == [address |-> "", latitude |-> None, longitude |-> None]

\* What one call to the service ends in: a location, None, or an exception
Outcomes ==
    { [kind |-> "located", location |-> l] : l \in Locations }
    \cup { [kind |-> k, location |-> NoLocation] :
             k \in {"none", "GeocoderTimedOut", "GeocoderServiceError", "Exception"} }

\* How long a call takes, in ticks: less than the minimum spacing, or more
Latencies == { 1, min_delay_seconds * TicksPerSecond + 1 }

\* Whether a call ended in an exception rather than a return value
IsException(kind) == kind \notin {"located", "none"}

Msg(level, text) == <<level, text>>

----------------------------------------------------------------------------
(* geocoder_app.py: the reverse batch *)

Lt(a, b) == a.k = "num" /\ b.k = "num" /\ a.v < b.v

\* geocoder_app.py:167   not (-90 <= lat <= 90) or not (-180 <= lon <= 180)
RangeCheckFailsStrict(lat, lon) ==
    \/ ~(Lt(Num(-90), lat) /\ Lt(lat, Num(90)))
    \/ ~(Lt(Num(-180), lon) /\ Lt(lon, Num(180)))

RangeCheckFails(lat, lon) ==
    \/ ~(Le(Num(-90), lat) /\ Le(lat, Num(90)))
    \/ ~(Le(Num(-180), lon) /\ Le(lon, Num(180)))

Row(lat, lon, address, status) ==
    [Latitude |-> lat, Longitude |-> lon, Address |-> address, Status |-> status]

\* geocoder_app.py:168
InvalidRow(lat, lon) == Row(lat, lon, "Invalid Coordinates", "Error")

\* geocoder_app.py:172-207: the record one call's outcome is given; the except
\* clauses are tried in order, GeocoderTimedOut before GeocoderServiceError
\* before Exception
ReverseRow(lat, lon, o) ==
    CASE o.kind = "located" -> Row(lat, lon, o.location.address, "Success")
      [] o.kind = "none" -> Row(lat, lon, "No address found", "Warning")
      [] o.kind = "GeocoderTimedOut" -> Row(lat, lon, "Geocoding Timed Out", "Error")
      [] o.kind = "GeocoderServiceError" -> Row(lat, lon, "Service Error: e", "Error")
      [] OTHER -> Row(lat, lon, "Unexpected Error: e", "Error")

\* geocoder_app.py:187-207: the except clauses of the loop body; the last one,
\* except Exception, takes whatever the first two do not
ReverseCaughtGeocoderOnly(kind) == kind \in {"GeocoderTimedOut", "GeocoderServiceError"}

ReverseCaught(kind) ==
    \/ kind = "GeocoderTimedOut"
    \/ kind = "GeocoderServiceError"
    \/ IsException(kind)

\* geocoder_app.py:154-162
ClickBatchReverse ==
    /\ app = "reverse"
    /\ pc = "idle"
    /\ IF coordinates_to_process = <<>>
          THEN /\ messages' = Append(messages, Msg("warning", "No coordinates to process"))
               /\ pc' = "done"
          ELSE /\ messages' = Append(messages, Msg("info", "Starting batch geocoding"))
               /\ pc' = "loop"
    /\ results' = <<>>
    /\ i' = 0
    /\ UNCHANGED <<app, coordinates_to_process, df, latitudes, longitudes,
                   geocoded_addresses, processed_df, geojson_output, progress,
                   status_text, now, last_call, tries, calls, signal, raw>>

\* geocoder_app.py:164-172: the head of one iteration, up to the call
ReverseBegin ==
    /\ app = "reverse"
    /\ pc = "loop"
    /\ i < Len(coordinates_to_process)
    /\ LET lat == coordinates_to_process[i + 1][1]
           lon == coordinates_to_process[i + 1][2]
       IN /\ status_text' = <<i + 1, Len(coordinates_to_process)>>
          /\ IF RangeCheckFails(lat, lon)
                THEN \* append, warn, continue: line 208 is not reached
                     /\ results' = Append(results, InvalidRow(lat, lon))
                     /\ messages' = Append(messages, Msg("warning", "Skipping invalid coordinates"))
                     /\ i' = i + 1
                     /\ signal' = "out_of_range"
                     /\ UNCHANGED <<pc, calls>>
                ELSE /\ calls' = Append(calls, [q |-> i + 1, t |-> now])
                     /\ pc' = "call"
                     /\ UNCHANGED <<results, messages, i, signal>>
    /\ UNCHANGED <<app, coordinates_to_process, df, latitudes, longitudes,
                   geocoded_addresses, processed_df, geojson_output, progress,
                   now, last_call, tries, raw>>

\* geocoder_app.py:172-208: geolocator.reverse returns or raises
ReverseReturn ==
    /\ app = "reverse"
    /\ pc = "call"
    /\ \E o \in Outcomes, dt \in Latencies :
          LET lat == coordinates_to_process[i + 1][1]
              lon == coordinates_to_process[i + 1][2]
          IN /\ now' = now + dt
             /\ signal' = o.kind
             /\ IF ~IsException(o.kind) \/ ReverseCaught(o.kind)
                   THEN /\ results' = Append(results, ReverseRow(lat, lon, o))
                        /\ progress' = Append(progress, <<i + 1, Len(coordinates_to_process)>>)
                        /\ i' = i + 1
                        /\ pc' = "loop"
                   ELSE \* the exception leaves the loop and ends the script run
                        /\ pc' = "crashed"
                        /\ UNCHANGED <<results, progress, i>>
    /\ UNCHANGED <<app, coordinates_to_process, df, latitudes, longitudes,
                   geocoded_addresses, processed_df, geojson_output, status_text,
                   messages, last_call, tries, calls, raw>>

\* geocoder_app.py:210-214
ReverseFinish ==
    /\ app = "reverse"
    /\ pc = "loop"
    /\ i = Len(coordinates_to_process)
    /\ status_text' = <<>>
    /\ messages' = Append(messages, Msg("success", "Batch geocoding complete!"))
    /\ pc' = "done"
    /\ UNCHANGED <<app, coordinates_to_process, df, i, results, latitudes, longitudes,
                   geocoded_addresses, processed_df, geojson_output, progress,
                   now, last_call, tries, calls, signal, raw>>

----------------------------------------------------------------------------
(* streamlit_geocoder_app.py: the forward batch *)

\* streamlit_geocoder_app.py:118-125
FeatureLatitudeFirst(row) ==
    [type |-> "Feature",
     geometry |-> [type |-> "Point", coordinates |-> <<row.latitude, row.longitude>>],
     properties |-> [c \in (DOMAIN row) \ {"latitude", "longitude"} |-> row[c]]]

Feature(row) ==
    [type |-> "Feature",
     geometry |-> [type |-> "Point", coordinates |-> <<row.longitude, row.latitude>>],
     properties |-> [c \in (DOMAIN row) \ {"latitude", "longitude"} |-> row[c]]]

\* streamlit_geocoder_app.py:109-132
df_to_geojson(frame) ==
    LET kept == SelectSeq(frame, LAMBDA row : notna(row.latitude) /\ notna(row.longitude))
    IN [type |-> "FeatureCollection",
        features |-> [k \in 1..Len(kept) |-> Feature(kept[k])]]

\* streamlit_geocoder_app.py:102-104: the three lists become columns
WithColumns(frame, lats, lons, addrs) ==
    [k \in 1..Len(frame) |->
        [latitude |-> lats[k], longitude |-> lons[k], geocoded_address |-> addrs[k]]
            @@ frame[k]]

\* streamlit_geocoder_app.py:169-171, 72-80
ClickBatchForward ==
    /\ app = "forward"
    /\ pc = "idle"
    /\ messages' = Append(messages, Msg("info", "Geocoding addresses..."))
    /\ latitudes' = <<>>
    /\ longitudes' = <<>>
    /\ geocoded_addresses' = <<>>
    /\ i' = 0
    /\ pc' = "loop"
    /\ UNCHANGED <<app, coordinates_to_process, df, results, processed_df,
                   geojson_output, progress, status_text, now, last_call, tries,
                   calls, signal, raw>>

\* streamlit_geocoder_app.py:82-84: geocode(address) is entered
ForwardBegin ==
    /\ app = "forward"
    /\ pc = "loop"
    /\ i < Len(df)
    /\ tries' = 0
    /\ pc' = "acquire"
    /\ UNCHANGED <<app, coordinates_to_process, df, i, results, latitudes, longitudes,
                   geocoded_addresses, processed_df, geojson_output, progress,
                   status_text, messages, now, last_call, calls, signal, raw>>

\* RateLimiter._acquire_request_slot: sleep until min_delay_seconds have passed
\* since the last dispatch, then dispatch
DispatchTime(clock, last) ==
    IF last # -1 /\ clock - last < min_delay_seconds * TicksPerSecond
       THEN last + min_delay_seconds * TicksPerSecond
       ELSE clock

\* streamlit_geocoder_app.py:84 (RateLimiter.__call__): one dispatch of geolocator.geocode
ForwardDispatch ==
    /\ app = "forward"
    /\ pc = "acquire"
    /\ now' = DispatchTime(now, last_call)
    /\ last_call' = now'
    /\ calls' = Append(calls, [q |-> i + 1, t |-> now'])
    /\ pc' = "call"
    /\ UNCHANGED <<app, coordinates_to_process, df, i, results, latitudes, longitudes,
                   geocoded_addresses, processed_df, geojson_output, progress,
                   status_text, messages, tries, signal, raw>>

\* RateLimiter.__call__: a GeocoderServiceError (GeocoderTimedOut is one) is
\* retried max_retries times, each after error_wait_seconds
RetriedOnceMore(o, n) ==
    /\ o.kind \in {"GeocoderTimedOut", "GeocoderServiceError"}
    /\ n <= max_retries

Retried(o, n) ==
    /\ o.kind \in {"GeocoderTimedOut", "GeocoderServiceError"}
    /\ n < max_retries

\* streamlit_geocoder_app.py:84-97: what geocode(address) ends in once no retry
\* follows: the location; None (no match, or a GeocoderServiceError swallowed
\* after the last try); any other exception, raised to line 93
ForwardEntry(o) ==
    CASE o.kind = "located" ->
            [latitude |-> o.location.latitude, longitude |-> o.location.longitude,
             geocoded_address |-> o.location.address, warned |-> FALSE]
      [] o.kind \in {"none", "GeocoderTimedOut", "GeocoderServiceError"} ->
            [latitude |-> None, longitude |-> None,
             geocoded_address |-> "Not Found", warned |-> FALSE]
      [] OTHER ->
            [latitude |-> None, longitude |-> None,
             geocoded_address |-> "Error: e", warned |-> TRUE]

\* RateLimiter.__call__ with swallow_exceptions=True: a GeocoderServiceError on
\* the last try is logged and None is returned in its place
Swallowed(kind) == kind \in {"GeocoderTimedOut", "GeocoderServiceError"}

\* streamlit_geocoder_app.py:93: except Exception
ForwardCaught(kind) == IsException(kind)

\* streamlit_geocoder_app.py:84-100: geolocator.geocode returns or raises
ForwardReturn ==
    /\ app = "forward"
    /\ pc = "call"
    /\ \E o \in Outcomes, dt \in Latencies :
          /\ signal' = o.kind
          /\ IF Retried(o, tries)
             THEN /\ tries' = tries + 1
                  /\ now' = now + dt + error_wait_seconds * TicksPerSecond
                  /\ pc' = "acquire"
                  /\ UNCHANGED <<latitudes, longitudes, geocoded_addresses, messages,
                                 progress, i>>
             ELSE IF IsException(o.kind) /\ ~Swallowed(o.kind) /\ ~ForwardCaught(o.kind)
             THEN \* the exception leaves the loop and ends the script run
                  /\ now' = now + dt
                  /\ pc' = "crashed"
                  /\ UNCHANGED <<latitudes, longitudes, geocoded_addresses, messages,
                                 progress, i, tries>>
             ELSE LET e == ForwardEntry(o)
                  IN /\ now' = now + dt
                     /\ latitudes' = Append(latitudes, e.latitude)
                     /\ longitudes' = Append(longitudes, e.longitude)
                     /\ geocoded_addresses' = Append(geocoded_addresses, e.geocoded_address)
                     /\ messages' = IF e.warned
                                       THEN Append(messages, Msg("warning", "Could not geocode"))
                                       ELSE messages
                     /\ progress' = Append(progress, <<i + 1, Len(df)>>)
                     /\ i' = i + 1
                     /\ pc' = "loop"
                     /\ UNCHANGED tries
    /\ UNCHANGED <<app, coordinates_to_process, df, results, processed_df,
                   geojson_output, status_text, last_call, calls, raw>>

\* streamlit_geocoder_app.py:102-107, 173-196
ForwardFinish ==
    /\ app = "forward"
    /\ pc = "loop"
    /\ i = Len(df)
    /\ processed_df' = WithColumns(df, latitudes, longitudes, geocoded_addresses)
    /\ messages' = Append(messages, Msg("success", "Geocoding complete!"))
    /\ geojson_output' = df_to_geojson(processed_df')
    /\ pc' = "done"
    /\ UNCHANGED <<app, coordinates_to_process, df, i, results, latitudes, longitudes,
                   geocoded_addresses, progress, status_text, now, last_call, tries,
                   calls, signal, raw>>

----------------------------------------------------------------------------
(* geocoder_app.py: manual coordinate entry.  Text is a sequence of         *)
(* characters.                                                              *)

Chars == { "1", "9", ",", ";", "x", " " }
Digits == { "1", "9" }

Texts == SeqsUpTo(Chars, MaxText)

Range(f) == { f[k] : k \in DOMAIN f }

\* str.split(sep): the pieces between the separators, empty ones kept
RECURSIVE split(_, _)
split(text, sep) ==
    IF sep \notin Range(text)
       THEN <<text>>
       ELSE LET k == CHOOSE k \in 1..Len(text) :
                        text[k] = sep /\ \A j \in 1..(k - 1) : text[j] # sep
            IN <<SubSeq(text, 1, k - 1)>> \o split(SubSeq(text, k + 1, Len(text)), sep)

\* str.strip()
RECURSIVE strip(_)
strip(text) ==
    IF text = <<>> THEN text
    ELSE IF Head(text) = " " THEN strip(Tail(text))
    ELSE IF text[Len(text)] = " " THEN strip(SubSeq(text, 1, Len(text) - 1))
    ELSE text

DigitValue(c) == IF c = "1" THEN 1 ELSE 9

RECURSIVE Decimal(_)
Decimal(digits) ==
    IF digits = <<>> THEN 0
    ELSE 10 * Decimal(SubSeq(digits, 1, Len(digits) - 1)) + DigitValue(digits[Len(digits)])

\* float(text): the number, or ValueError; blanks around the number are ignored
float(text) ==
    LET t == strip(text)
    IN IF t # <<>> /\ Range(t) \subseteq Digits
          THEN [ok |-> TRUE, value |-> Num(Decimal(t))]
          ELSE [ok |-> FALSE, value |-> NaN]

\* geocoder_app.py:143-146: the loop over the pairs; a ValueError (from the
\* unpacking of the split or from float) ends it with the pairs appended so far
RECURSIVE ParsePairs(_, _)
ParsePairs(pairs_str, done) ==
    IF pairs_str = <<>>
       THEN [coordinates |-> done, raised |-> FALSE]
       ELSE LET pair_str == Head(pairs_str)
                tokens == split(strip(pair_str), ",")
            IN IF "," \notin Range(pair_str)
                  THEN ParsePairs(Tail(pairs_str), done)
                  ELSE IF Len(tokens) # 2
                          THEN [coordinates |-> done, raised |-> TRUE]
                          ELSE IF ~float(tokens[1]).ok \/ ~float(tokens[2]).ok
                                  THEN [coordinates |-> done, raised |-> TRUE]
                                  ELSE ParsePairs(Tail(pairs_str),
                                          Append(done, <<float(tokens[1]).value,
                                                         float(tokens[2]).value>>))

\* geocoder_app.py:98, 134-151: one run of the script with the manual entry
\* chosen and the text area holding raw
EnterManually ==
    /\ app = "reverse"
    /\ pc = "manual"
    /\ IF raw = <<>>
          THEN UNCHANGED <<coordinates_to_process, messages>>
          ELSE LET parsed == ParsePairs(split(raw, ";"), <<>>)
               IN /\ coordinates_to_process' = parsed.coordinates
                  /\ messages' =
                        IF parsed.raised
                           THEN Append(messages,
                                   Msg("error", "Invalid format for manual coordinates"))
                           ELSE Append(messages, Msg("success", "Parsed coordinate pairs"))
    /\ pc' = "idle"
    /\ UNCHANGED <<app, df, i, results, latitudes, longitudes, geocoded_addresses,
                   processed_df, geojson_output, progress, status_text, now,
                   last_call, tries, calls, signal, raw>>

----------------------------------------------------------------------------
(* geocoder_app.py: CSV upload.  A WKT cell is what wkt.loads reads in it:  *)
(* the geometry tag and, for a point, its x and y; "nan" is an empty cell,  *)
(* which pandas reads as a float and not as text.                           *)

RowMsg(level, text, row) == <<level, text, row>>

WktCells ==
    { [text |-> "POINT", x |-> -82, y |-> 35],
      [text |-> "POINT", x |-> 181, y |-> 91],
      [text |-> "LINESTRING", x |-> 0, y |-> 0],
      [text |-> "garbage", x |-> 0, y |-> 0],
      [text |-> "nan", x |-> 0, y |-> 0] }

NoCell == [text |-> "nan", x |-> 0, y |-> 0]

CsvPairs == { <<Num(10), Num(20)>>, <<Num(91), Num(0)>> }

CsvColumnSets ==
    { {"WKT"}, {"WKT", "latitude", "longitude"}, {"latitude", "longitude"},
      {"latitude"}, {"address"} }

CsvRows(columns) ==
    { [WKT |-> w, latitude |-> c[1], longitude |-> c[2]] :
         w \in (IF "WKT" \in columns THEN WktCells ELSE {NoCell}),
         c \in (IF {"latitude", "longitude"} \subseteq columns
                   THEN CsvPairs ELSE {<<None, None>>}) }

CsvFiles ==
    { [readable |-> FALSE, columns |-> {}, rows |-> <<>>] }
    \cup UNION { { [readable |-> TRUE, columns |-> c, rows |-> r] :
                      r \in SeqsUpTo(CsvRows(c), MaxRows) } : c \in CsvColumnSets }

\* shapely.wkt.loads: the geometry, or the exception raised
wkt_loads(cell) ==
    CASE cell.text = "POINT" ->
            [raised |-> "", geom_type |-> "Point", x |-> Num(cell.x), y |-> Num(cell.y)]
      [] cell.text = "LINESTRING" ->
            [raised |-> "", geom_type |-> "LineString", x |-> None, y |-> None]
      [] cell.text = "garbage" ->
            [raised |-> "GEOSException", geom_type |-> "", x |-> None, y |-> None]
      [] OTHER ->
            [raised |-> "Exception", geom_type |-> "", x |-> None, y |-> None]

\* geocoder_app.py:113-114: WKT Point format is POINT (longitude latitude)
PointQueryUnswapped(point) == <<point.x, point.y>>

PointQuery(point) == <<point.y, point.x>>

\* geocoder_app.py:108-120: the loop over the rows, from row k on
RECURSIVE WktRows(_, _, _)
WktRows(rows, k, done) ==
    IF k > Len(rows)
       THEN done
       ELSE LET point == wkt_loads(rows[k].WKT)
                index == k - 1
            IN WktRows(rows, k + 1,
                  CASE point.raised = "GEOSException" ->
                          [done EXCEPT !.messages =
                              Append(@, RowMsg("warning", "Could not parse WKT", index))]
                    [] point.raised = "Exception" ->
                          [done EXCEPT !.messages =
                              Append(@, RowMsg("warning", "An unexpected error occurred parsing WKT", index))]
                    [] point.geom_type = "Point" ->
                          [done EXCEPT !.coordinates = Append(@, PointQuery(point))]
                    [] OTHER ->
                          [done EXCEPT !.messages =
                              Append(@, RowMsg("warning", "Skipping non-Point WKT geometry", index))])

\* geocoder_app.py:106, 126: which shape of frame is read
FrameShape(columns) ==
    IF "WKT" \in columns THEN "WKT"
    ELSE IF "latitude" \in columns /\ "longitude" \in columns THEN "latlon"
    ELSE "none"

\* geocoder_app.py:98-133: one run of the script with a CSV file uploaded
UploadCsv ==
    /\ app = "reverse"
    /\ pc = "upload"
    /\ IF ~raw.readable
          THEN /\ messages' = Append(messages, Msg("error", "Error reading CSV"))
               /\ coordinates_to_process' = <<>>
          ELSE CASE FrameShape(raw.columns) = "WKT" ->
                       LET read == WktRows(raw.rows, 1,
                                      [coordinates |-> <<>>,
                                       messages |-> Append(messages,
                                                      Msg("info", "Detected 'WKT' column"))])
                       IN /\ coordinates_to_process' = read.coordinates
                          /\ messages' =
                                IF read.coordinates # <<>>
                                   THEN Append(read.messages,
                                           Msg("success", "Loaded valid coordinate pairs from WKT column"))
                                   ELSE Append(read.messages,
                                           Msg("warning", "No valid Point WKT geometries found"))
                 [] FrameShape(raw.columns) = "latlon" ->
                       /\ coordinates_to_process' =
                             [k \in 1..Len(raw.rows) |->
                                 <<raw.rows[k].latitude, raw.rows[k].longitude>>]
                       /\ messages' = Append(messages, Msg("success", "Loaded coordinate pairs"))
                 [] OTHER ->
                       /\ messages' = Append(messages,
                                         Msg("error", "CSV must contain either 'latitude' and 'longitude' columns, or a 'WKT' column"))
                       /\ coordinates_to_process' = <<>>
    /\ pc' = "idle"
    /\ UNCHANGED <<app, df, i, results, latitudes, longitudes, geocoded_addresses,
                   processed_df, geojson_output, progress, status_text, now,
                   last_call, tries, calls, signal, raw>>

----------------------------------------------------------------------------
(* streamlit_geocoder_app.py: file upload.  A feature of a GeoJSON document *)
(* is told by its "properties" member: absent, null, an object without an   *)
(* "address" key, or an object with one.                                    *)

FeatureValues ==
    { [properties |-> p, address |-> ""] : p \in {"absent", "null", "object"} }
    \cup { [properties |-> "object with address", address |-> a] : a \in {"a1", "a2"} }

DocTypes == { "FeatureCollection", "Feature", "absent" }

JsonFiles ==
    { [type |-> "application/json", readable |-> FALSE, columns |-> {},
       rows |-> <<>>, doctype |-> "absent", features |-> <<>>] }
    \cup { [type |-> "application/json", readable |-> TRUE, columns |-> {},
            rows |-> <<>>, doctype |-> t, features |-> f] :
              t \in DocTypes, f \in SeqsUpTo(FeatureValues, MaxRows) }

AddressFiles ==
    { [type |-> "text/csv", readable |-> FALSE, columns |-> {}, rows |-> <<>>,
       doctype |-> "absent", features |-> <<>>],
      [type |-> "text/csv", readable |-> TRUE, columns |-> {"name"}, rows |-> <<>>,
       doctype |-> "absent", features |-> <<>>],
      [type |-> "text/plain", readable |-> TRUE, columns |-> {}, rows |-> <<>>,
       doctype |-> "absent", features |-> <<>>] }
    \cup { [type |-> "text/csv", readable |-> TRUE, columns |-> {"address"}, rows |-> f,
            doctype |-> "absent", features |-> <<>>] : f \in Frames }

UploadedFiles == JsonFiles \cup AddressFiles

\* streamlit_geocoder_app.py:50   "properties" in feature and "address" in
\* feature["properties"]; the second test raises TypeError on null
AddressTest(feature) ==
    CASE feature.properties = "absent" -> "false"
      [] feature.properties = "null" -> "raised"
      [] feature.properties = "object" -> "false"
      [] OTHER -> "true"

\* streamlit_geocoder_app.py:48-53: the loop over the features
RECURSIVE ExtractAddresses(_, _)
ExtractAddresses(features, done) ==
    IF features = <<>>
       THEN done
       ELSE LET test == AddressTest(Head(features))
            IN CASE test = "raised" -> [done EXCEPT !.raised = TRUE]
                 [] test = "true" ->
                       ExtractAddresses(Tail(features),
                          [done EXCEPT !.addresses = Append(@, Head(features).address)])
                 [] OTHER ->
                       ExtractAddresses(Tail(features),
                          [done EXCEPT !.messages =
                              Append(@, Msg("warning", "Skipping a GeoJSON feature with missing 'properties.address'"))])

Rejected(msgs, text) == [data |-> <<>>, loaded |-> FALSE, messages |-> Append(msgs, Msg("error", text))]

\* streamlit_geocoder_app.py:24-66
load_data(uploaded_file, msgs) ==
    CASE uploaded_file.type = "text/csv" ->
            IF ~uploaded_file.readable
               THEN Rejected(msgs, "Error reading CSV")
               ELSE IF "address" \notin uploaded_file.columns
                       THEN Rejected(msgs, "CSV file must contain an 'address' column.")
                       ELSE [data |-> uploaded_file.rows, loaded |-> TRUE, messages |-> msgs]
      [] uploaded_file.type = "application/json" ->
            IF ~uploaded_file.readable
               THEN Rejected(msgs, "Error reading GeoJSON")
               ELSE IF uploaded_file.doctype # "FeatureCollection"
                       THEN Rejected(msgs, "GeoJSON file must be a FeatureCollection.")
                       ELSE LET read == ExtractAddresses(uploaded_file.features,
                                           [addresses |-> <<>>, raised |-> FALSE,
                                            messages |-> msgs])
                            IN IF read.raised
                                  THEN Rejected(read.messages, "Error reading GeoJSON")
                                  ELSE IF read.addresses = <<>>
                                          THEN Rejected(read.messages,
                                                  "No 'address' property found in any GeoJSON feature.")
                                          ELSE [data |-> [k \in 1..Len(read.addresses) |->
                                                            [address |-> read.addresses[k]]],
                                                loaded |-> TRUE,
                                                messages |-> read.messages]
      [] OTHER -> Rejected(msgs, "Unsupported file type.")

\* streamlit_geocoder_app.py:150-167: one run of the script with a file uploaded
UploadFile ==
    /\ app = "forward"
    /\ pc = "upload"
    /\ LET data_loaded == load_data(raw, messages)
       IN /\ messages' = data_loaded.messages
          /\ df' = data_loaded.data
          /\ pc' = IF data_loaded.loaded THEN "idle" ELSE "rejected"
    /\ UNCHANGED <<app, coordinates_to_process, i, results, latitudes, longitudes,
                   geocoded_addresses, processed_df, geojson_output, progress,
                   status_text, now, last_call, tries, calls, signal, raw>>

\* streamlit_geocoder_app.py:189-190
DownloadGeoJson ==
    /\ app = "forward"
    /\ pc = "geocoded"
    /\ geojson_output' = df_to_geojson(processed_df)
    /\ pc' = "done"
    /\ UNCHANGED <<app, coordinates_to_process, df, i, results, latitudes, longitudes,
                   geocoded_addresses, processed_df, progress, status_text, messages,
                   now, last_call, tries, calls, signal, raw>>

----------------------------------------------------------------------------
(* One batch run of either application *)

NoGeoJson == [type |-> "FeatureCollection", features |-> <<>>]

Blank ==
    /\ i = 0
    /\ results = <<>>
    /\ latitudes = <<>>
    /\ longitudes = <<>>
    /\ geocoded_addresses = <<>>
    /\ processed_df = <<>>
    /\ geojson_output = NoGeoJson
    /\ progress = <<>>
    /\ status_text = <<>>
    /\ messages = <<>>
    /\ now = 0
    /\ last_call = -1
    /\ tries = 0
    /\ calls = <<>>
    /\ signal = ""

Init ==
    /\ pc = "idle"
    /\ Blank
    /\ raw = <<>>
    /\ \/ /\ app = "reverse"
          /\ coordinates_to_process \in SeqsUpTo(Coordinates, MaxQueries)
          /\ df = <<>>
       \/ /\ app = "forward"
          /\ coordinates_to_process = <<>>
          /\ df \in Frames

Next ==
    \/ ClickBatchReverse
    \/ ReverseBegin
    \/ ReverseReturn
    \/ ReverseFinish
    \/ ClickBatchForward
    \/ ForwardBegin
    \/ ForwardDispatch
    \/ ForwardReturn
    \/ ForwardFinish

Spec == Init /\ [][Next]_vars

----------------------------------------------------------------------------
(* Properties of a batch run *)

Total == IF app = "reverse" THEN Len(coordinates_to_process) ELSE Len(df)

CallsFor(q) == { k \in 1..Len(calls) : calls[k].q = q }

MinSpacing == min_delay_seconds * TicksPerSecond

\* C1: no item's failure ends the batch early, the records written so far are
\* those of the first i queries in input order, and a finished batch holds
\* exactly one record per input query, record k being that of query k.
C1_OneRecordPerQueryInOrder ==
    /\ pc # "crashed"
    /\ app = "reverse" =>
          /\ Len(results) = i
          /\ i <= Len(coordinates_to_process)
          /\ \A k \in 1..Len(results) :
                /\ results[k].Latitude = coordinates_to_process[k][1]
                /\ results[k].Longitude = coordinates_to_process[k][2]
          /\ pc = "done" => Len(results) = Len(coordinates_to_process)
    /\ app = "forward" =>
          /\ Len(latitudes) = i
          /\ Len(longitudes) = i
          /\ Len(geocoded_addresses) = i
          /\ i <= Len(df)
          /\ pc = "done" =>
                /\ Len(processed_df) = Len(df)
                /\ \A k \in 1..Len(df) :
                      /\ processed_df[k].address = df[k].address
                      /\ processed_df[k].latitude = latitudes[k]
                      /\ processed_df[k].longitude = longitudes[k]
                      /\ processed_df[k].geocoded_address = geocoded_addresses[k]

\* A finished reverse batch whose first item was rejected and whose second timed out
C1_Witness ==
    /\ app = "reverse"
    /\ pc = "done"
    /\ Len(results) = 2
    /\ results[1].Address = "Invalid Coordinates"
    /\ results[2].Address = "Geocoding Timed Out"

\* A coordinate pair outside latitude [-90, 90] or longitude [-180, 180]
OutOfRange(c) ==
    \/ c[1].k # "num"
    \/ c[1].v < -90
    \/ c[1].v > 90
    \/ c[2].k # "num"
    \/ c[2].v < -180
    \/ c[2].v > 180

\* C2: in the reverse batch a query out of range is recorded as 'Invalid
\* Coordinates' and no call is ever dispatched for it; a query in range has
\* its call dispatched before its record is written.
C2_RangeCheckedBeforeCall ==
    app = "reverse" =>
       \A k \in 1..Len(coordinates_to_process) :
          IF OutOfRange(coordinates_to_process[k])
             THEN /\ CallsFor(k) = {}
                  /\ k <= Len(results) => results[k] = InvalidRow(coordinates_to_process[k][1],
                                                                  coordinates_to_process[k][2])
             ELSE /\ k <= Len(results) =>
                        /\ CallsFor(k) # {}
                        /\ results[k].Address # "Invalid Coordinates"

\* A finished reverse batch of a rejected query and one on the edge of the range
C2_Witness ==
    /\ app = "reverse"
    /\ pc = "done"
    /\ coordinates_to_process = << <<Num(91), Num(0)>>, <<Num(90), Num(180)>> >>
    /\ Len(calls) = 1
    /\ calls[1].q = 2
    /\ results[1].Address = "Invalid Coordinates"

\* C3: after each item, whatever its outcome, a progress signal (index / total)
\* has been emitted before the next item starts: i items done means i signals,
\* the k-th reporting k / total.
C3_ProgressAfterEveryItem ==
    pc # "idle" =>
       /\ Len(progress) = i
       /\ \A k \in 1..Len(progress) : progress[k] = <<k, Total>>

\* C4: any two consecutive dispatches of one batch run, forward or reverse, are
\* at least the minimum spacing apart.
C4_MinimumSpacing ==
    \A k \in 1..(Len(calls) - 1) : calls[k + 1].t - calls[k].t >= MinSpacing

\* The outcome variant a row of the reverse result table stands for
ReverseVariant(row) ==
    CASE row.Status = "Success" -> "Success"
      [] row.Address = "No address found" -> "NotFound"
      [] row.Address = "Invalid Coordinates" -> "Invalid"
      [] row.Address \in {"Geocoding Timed Out", "Service Error: e"} -> "TransientFailure"
      [] OTHER -> "PermanentFailure"

\* The outcome variant an entry of the forward geocoded_address column stands for
ForwardVariant(text) ==
    CASE text = "Not Found" -> "NotFound"
      [] text = "Error: e" -> "PermanentFailure"
      [] OTHER -> "Success"

\* The outcome variant the claim gives each way an attempt can end
ExpectedVariant(kind) ==
    CASE kind = "located" -> "Success"
      [] kind = "none" -> "NotFound"
      [] kind = "out_of_range" -> "Invalid"
      [] kind \in {"GeocoderTimedOut", "GeocoderServiceError"} -> "TransientFailure"
      [] OTHER -> "PermanentFailure"

\* C6: every attempt ends in one recorded outcome and no exception leaves the
\* loop; the record written is of the variant the attempt's ending maps to
\* (timeout and service error to TransientFailure, out of range to Invalid, no
\* match to NotFound, any other exception to PermanentFailure, a location to
\* Success), and rows of distinct variants carry distinct status labels.
C6_OutcomeMapping ==
    [][ /\ pc' # "crashed"
        /\ Len(results') = Len(results) + 1 =>
              ReverseVariant(results'[Len(results')]) = ExpectedVariant(signal')
        /\ Len(geocoded_addresses') = Len(geocoded_addresses) + 1 =>
              ForwardVariant(geocoded_addresses'[Len(geocoded_addresses')])
                 = ExpectedVariant(signal')
        /\ \A a, b \in 1..Len(results') :
              ReverseVariant(results'[a]) # ReverseVariant(results'[b])
                 => results'[a].Status # results'[b].Status
      ]_vars

----------------------------------------------------------------------------
(* Manual entry: the text area is filled, the script runs, the batch button *)
(* is clicked                                                               *)

InitManual ==
    /\ pc = "manual"
    /\ Blank
    /\ app = "reverse"
    /\ coordinates_to_process = <<>>
    /\ df = <<>>
    /\ raw \in Texts

NextManual ==
    \/ EnterManually
    \/ ClickBatchReverse

SpecManual == InitManual /\ [][NextManual]_vars

\* A segment that yields exactly two tokens, each a number
WellFormedSegment(segment) ==
    \E k \in 1..Len(segment) :
       /\ segment[k] = ","
       /\ \A j \in 1..Len(segment) : segment[j] = "," => j = k
       /\ float(SubSeq(segment, 1, k - 1)).ok
       /\ float(SubSeq(segment, k + 1, Len(segment))).ok

\* The segments of a text: the stretches between its semicolons
Segments(text) ==
    LET cuts == {0, Len(text) + 1} \cup { k \in 1..Len(text) : text[k] = ";" }
    IN { SubSeq(text, a + 1, b - 1) :
            <<a, b>> \in { c \in cuts \X cuts :
                              c[1] < c[2] /\ \A m \in cuts : ~(c[1] < m /\ m < c[2]) } }

\* C5: when a segment of the manual text does not yield exactly two numbers,
\* the whole input fails: an error is reported and no query from it is left
\* for the batch.
C5_MalformedInputFailsWhole ==
    (pc # "manual" /\ raw # <<>> /\ \E g \in Segments(raw) : ~WellFormedSegment(g)) =>
       /\ coordinates_to_process = <<>>
       /\ \E k \in 1..Len(messages) : messages[k][1] = "error"
       /\ pc # "loop"

----------------------------------------------------------------------------
(* CSV upload: a file is uploaded, the script runs, the batch button is     *)
(* clicked                                                                  *)

InitCsv ==
    /\ pc = "upload"
    /\ Blank
    /\ app = "reverse"
    /\ coordinates_to_process = <<>>
    /\ df = <<>>
    /\ raw \in CsvFiles

NextCsv ==
    \/ UploadCsv
    \/ ClickBatchReverse

SpecCsv == InitCsv /\ [][NextCsv]_vars

\* The rows of a frame whose WKT cell is a point
PointRows(rows) == { k \in 1..Len(rows) : rows[k].WKT.text = "POINT" }

\* The n-th smallest member of a set of row numbers
Nth(S, n) == CHOOSE k \in S : Cardinality({ m \in S : m < k }) = n - 1

\* C9: a frame with a WKT column is read from that column alone: the queries
\* are, in row order, (latitude = y, longitude = x) of each row whose cell is
\* a POINT; every other row is skipped with a warning naming it, and none
\* fails the input.
C9_WktPrecedenceAndSwap ==
    (pc # "upload" /\ raw.readable /\ "WKT" \in raw.columns) =>
       LET points == PointRows(raw.rows)
       IN /\ Len(coordinates_to_process) = Cardinality(points)
          /\ \A n \in 1..Len(coordinates_to_process) :
                /\ coordinates_to_process[n][1] = Num(raw.rows[Nth(points, n)].WKT.y)
                /\ coordinates_to_process[n][2] = Num(raw.rows[Nth(points, n)].WKT.x)
          /\ \A k \in 1..Len(raw.rows) :
                k \notin points <=>
                   \E m \in 1..Len(messages) :
                      /\ messages[m][1] = "warning"
                      /\ Len(messages[m]) = 3
                      /\ messages[m][3] = k - 1
          /\ \A m \in 1..Len(messages) : messages[m][1] # "error"

\* A frame with WKT, latitude and longitude columns, a line in its first row
\* and a point in its second
C9_Witness ==
    /\ pc = "idle"
    /\ raw.readable
    /\ raw.columns = {"WKT", "latitude", "longitude"}
    /\ Len(raw.rows) = 2
    /\ raw.rows[1].WKT.text = "LINESTRING"
    /\ raw.rows[2].WKT = [text |-> "POINT", x |-> -82, y |-> 35]
    /\ coordinates_to_process = << <<Num(35), Num(-82)>> >>

----------------------------------------------------------------------------
(* File upload of the forward application: a file is uploaded, the script   *)
(* runs, and the batch button, when it is offered, is clicked               *)

InitUpload ==
    /\ pc = "upload"
    /\ Blank
    /\ app = "forward"
    /\ coordinates_to_process = <<>>
    /\ df = <<>>
    /\ raw \in UploadedFiles

NextUpload ==
    \/ UploadFile
    \/ ClickBatchForward

SpecUpload == InitUpload /\ [][NextUpload]_vars

\* The features of a document that carry properties.address
Carriers(features) ==
    { k \in 1..Len(features) : features[k].properties = "object with address" }

\* C8: a GeoJSON document is rejected as a whole exactly when its type is not
\* "FeatureCollection" or no feature yields an address; otherwise the queries
\* are the properties.address of the features that carry one, in feature
\* order, and every other feature is skipped with a warning.
C8_GeoJsonLoad ==
    (pc # "upload" /\ raw.type = "application/json" /\ raw.readable) =>
       LET carriers == Carriers(raw.features)
       IN /\ pc = "rejected" <=> (raw.doctype # "FeatureCollection" \/ carriers = {})
          /\ pc # "rejected" =>
                /\ Len(df) = Cardinality(carriers)
                /\ \A n \in 1..Len(df) :
                      df[n].address = raw.features[Nth(carriers, n)].address
                /\ Cardinality({ m \in 1..Len(messages) : messages[m][1] = "warning" })
                      = Len(raw.features) - Cardinality(carriers)

----------------------------------------------------------------------------
(* GeoJSON export of a geocoded frame *)

ExportRows ==
    { [address |-> a, latitude |-> lat, longitude |-> lon, geocoded_address |-> g] :
         a \in {"a1", "a2"},
         lat \in {Num(35), None, NaN},
         lon \in {Num(-82), None},
         g \in {"addr1", "Not Found"} }

InitExport ==
    /\ pc = "geocoded"
    /\ i = 0
    /\ results = <<>>
    /\ latitudes = <<>>
    /\ longitudes = <<>>
    /\ geocoded_addresses = <<>>
    /\ geojson_output = NoGeoJson
    /\ progress = <<>>
    /\ status_text = <<>>
    /\ messages = <<>>
    /\ now = 0
    /\ last_call = -1
    /\ tries = 0
    /\ calls = <<>>
    /\ signal = ""
    /\ app = "forward"
    /\ coordinates_to_process = <<>>
    /\ df = <<>>
    /\ raw = <<>>
    /\ processed_df \in SeqsUpTo(ExportRows, MaxRows)

NextExport == DownloadGeoJson

SpecExport == InitExport /\ [][NextExport]_vars

\* The rows of a frame that have both a latitude and a longitude
Resolved(frame) ==
    { k \in 1..Len(frame) : frame[k].latitude.k = "num" /\ frame[k].longitude.k = "num" }

----------------------------------------------------------------------------
(* From the input to the end of the batch, in either application: the       *)
(* script runs on the input given, then the batch button, when it is        *)
(* offered, is clicked and the batch runs to its end                        *)

InitInput ==
    /\ Blank
    /\ coordinates_to_process = <<>>
    /\ df = <<>>
    /\ \/ /\ app = "reverse"
          /\ pc = "idle"
          /\ raw = <<>>
       \/ /\ app = "reverse"
          /\ pc = "manual"
          /\ raw \in Texts
       \/ /\ app = "reverse"
          /\ pc = "upload"
          /\ raw \in CsvFiles
       \/ /\ app = "forward"
          /\ pc = "upload"
          /\ raw \in UploadedFiles

NextInput ==
    \/ EnterManually
    \/ UploadCsv
    \/ UploadFile
    \/ Next

SpecInput == InitInput /\ [][NextInput]_vars

\* The message that reports a batch as complete
Complete(message) ==
    /\ message[1] = "success"
    /\ message[2] \in {"Batch geocoding complete!", "Geocoding complete!"}

\* C11: when the input read leaves no query (nothing given, mandatory columns
\* missing, a WKT column without a valid POINT row, the required column with
\* zero rows, a rejected document), the batch does not start: no call to the
\* service is made, no result set is produced and no completion is reported.
C11_EmptyInputAbortsBeforeBatch ==
    (pc \notin {"manual", "upload"} /\ Total = 0) =>
       /\ calls = <<>>
       /\ results = <<>>
       /\ processed_df = <<>>
       /\ app = "forward" => pc # "done"
       /\ \A k \in 1..Len(messages) : ~Complete(messages[k])

====
